---- MODULE Spec2Model ----
(***************************************************************************)
(* Model of the movie application: the SQLite store of                     *)
(* storage/movie_storage_sql.py and the controller of movies.py.           *)
(*                                                                         *)
(* Strings are sequences of one-character strings, so that str.strip and   *)
(* the ORDER BY clauses are computed and not assumed.  Ratings are written *)
(* in tenths (88 stands for 8.8).                                          *)
(***************************************************************************)
EXTENDS Integers, Sequences, FiniteSets, TLC

VARIABLES users, movies, userSeq, movieSeq, call, ret,
          current_user, pc, choice, OMDB_API_KEY, fetched, requestsSent, sites,
          listedBefore

storeVars == <<users, movies, userSeq, movieSeq>>
ctlVars == <<current_user, pc, choice, OMDB_API_KEY, fetched, requestsSent, sites>>
vars == <<users, movies, userSeq, movieSeq, call, ret,
          current_user, pc, choice, OMDB_API_KEY, fetched, requestsSent, sites,
          listedBefore>>

----------------------------------------------------------------------------
(* Bounds and input domains *)

\* cap on the AUTOINCREMENT counter of the movies table
MaxMovieSeq == 2

\* user names as typed or passed: empty, blank, padded and plain
Names == { <<>>, <<" ">>, <<"a">>, <<" ", "a">>, <<"a", " ">>, <<"b">> }

Titles == { <<"A">>, <<"B">> }
\* the (year, rating, poster URL) triples passed to add_movie: the scenario's
\* values, and the parser's fallbacks apart from the poster
MovieData == { [year |-> 2010, rating |-> 88, poster_url |-> <<>>],
               [year |-> 0, rating |-> 90, poster_url |-> <<"p">>] }
\* ratings passed to update_movie
Ratings == { 88, 90 }
\* user ids passed to the store, whether or not a users row has them
UserIds == { 1, 2 }

----------------------------------------------------------------------------
(* Strings *)

\* code point of the characters the model uses (SQLite BINARY collation)
Ord(c) ==
    CASE c = " " -> 32
      [] c = "-" -> 45
      [] c = "." -> 46
      [] c = "/" -> 47
      [] c = "0" -> 48
      [] c = "1" -> 49
      [] c = "2" -> 50
      [] c = "3" -> 51
      [] c = "8" -> 56
      [] c = "9" -> 57
      [] c = "A" -> 65
      [] c = "B" -> 66
      [] c = "N" -> 78
      [] c = "_" -> 95
      [] c = "a" -> 97
      [] c = "b" -> 98
      [] c = "p" -> 112
      [] c = "x" -> 120
      [] OTHER -> 0

IsSpace(c) == c = " "

RECURSIVE lstrip(_)
lstrip(s) == IF s # <<>> /\ IsSpace(Head(s)) THEN lstrip(Tail(s)) ELSE s

RECURSIVE rstrip(_)
rstrip(s) ==
    IF s # <<>> /\ IsSpace(s[Len(s)]) THEN rstrip(SubSeq(s, 1, Len(s) - 1)) ELSE s

\* a strip that trims the left side only
stripLeftOnly(s) == lstrip(s)

\* str.strip()
strip(s) == rstrip(lstrip(s))

IsDigit(c) == Ord(c) >= Ord("0") /\ Ord(c) <= Ord("9")

\* str.isalnum() of one character
IsAlnum(c) ==
    \/ IsDigit(c)
    \/ Ord(c) >= Ord("A") /\ Ord(c) <= Ord("A") + 25
    \/ Ord(c) >= Ord("a") /\ Ord(c) <= Ord("a") + 25

AllDigits(s) == s # <<>> /\ \A i \in 1..Len(s) : IsDigit(s[i])

RECURSIVE DigitsValue(_)
DigitsValue(s) ==
    IF s = <<>> THEN 0
    ELSE 10 * DigitsValue(SubSeq(s, 1, Len(s) - 1)) + (Ord(s[Len(s)]) - Ord("0"))

\* int(s): ok is FALSE where int raises ValueError
ParseInt(s) ==
    IF AllDigits(s) THEN [ok |-> TRUE, val |-> DigitsValue(s)]
    ELSE [ok |-> FALSE, val |-> 0]

\* float(s) in tenths, for the spellings "d", "d.d": ok is FALSE where float
\* raises ValueError
ParseFloat(s) ==
    IF AllDigits(s) THEN [ok |-> TRUE, val |-> 10 * DigitsValue(s)]
    ELSE IF /\ Len(s) >= 3
            /\ s[Len(s) - 1] = "."
            /\ IsDigit(s[Len(s)])
            /\ AllDigits(SubSeq(s, 1, Len(s) - 2))
    THEN [ok |-> TRUE,
          val |-> 10 * DigitsValue(SubSeq(s, 1, Len(s) - 2))
                  + DigitsValue(<<s[Len(s)]>>)]
    ELSE [ok |-> FALSE, val |-> 0]

\* s < t in byte order
RECURSIVE StrLess(_, _)
StrLess(s, t) ==
    IF t = <<>> THEN FALSE
    ELSE IF s = <<>> THEN TRUE
    ELSE IF Ord(Head(s)) # Ord(Head(t)) THEN Ord(Head(s)) < Ord(Head(t))
    ELSE StrLess(Tail(s), Tail(t))

\* the strings of S in ascending order (ORDER BY)
RECURSIVE OrderBy(_)
OrderBy(S) ==
    IF S = {} THEN <<>>
    ELSE LET least == CHOOSE x \in S : \A y \in S \ {x} : StrLess(x, y)
         IN  <<least>> \o OrderBy(S \ {least})

----------------------------------------------------------------------------
(* Store: schema and results *)

NoUser == [id |-> 0, name |-> <<>>]

NoCall == [op |-> "none", name |-> <<>>, title |-> <<>>, year |-> 0,
           rating |-> 0, poster_url |-> <<>>, user_id |-> 0]

\* what a store call gave back: the exception raised ("none" when it
\* returned), the line it printed, and the value returned
NoRet == [exc |-> "none", msg |-> "none", user |-> NoUser, rows |-> <<>>]

Returned(msg, user, rows) ==
    [exc |-> "none", msg |-> msg, user |-> user, rows |-> rows]

Raised(exc) == [exc |-> exc, msg |-> "none", user |-> NoUser, rows |-> <<>>]

\* UNIQUE (name) of the users table
UserNameTaken(us, name) == \E u \in us : u.name = name

\* a movies table declared without UNIQUE (title, user_id)
UniqueViolationOff(ms, title, user_id) == FALSE

\* UNIQUE (title, user_id) of the movies table
UniqueViolation(ms, title, user_id) ==
    \E m \in ms : m.title = title /\ m.user_id = user_id

\* FOREIGN KEY (user_id) REFERENCES users(id) as the engine enforces it: the
\* engine is created without PRAGMA foreign_keys, SQLite's default is off,
\* so no user_id is rejected
ForeignKeyViolation(us, user_id) == FALSE

\* an INSERT whose year and rating parameters are bound the wrong way round
MovieRowSwapped(id, title, year, rating, poster_url, user_id) ==
    [id |-> id, title |-> title, year |-> rating, rating |-> year,
     poster_url |-> poster_url, user_id |-> user_id]

\* the row an INSERT INTO movies writes
MovieRow(id, title, year, rating, poster_url, user_id) ==
    [id |-> id, title |-> title, year |-> year, rating |-> rating,
     poster_url |-> poster_url, user_id |-> user_id]

\* a WHERE clause that forgets the title
MatchesUserOnly(m, title, user_id) == m.user_id = user_id

\* a WHERE clause that forgets the user
MatchesTitleOnly(m, title, user_id) == m.title = title

\* WHERE title = :title AND user_id = :user_id
MatchesMovie(m, title, user_id) == m.title = title /\ m.user_id = user_id

----------------------------------------------------------------------------
(* Store: operations *)

init_db ==
    /\ users = {}
    /\ movies = {}
    /\ userSeq = 0
    /\ movieSeq = 0

\* SELECT id, name FROM users ORDER BY name
list_users_rows(us) ==
    LET names == OrderBy({u.name : u \in us})
    IN  [i \in 1..Len(names) |-> CHOOSE u \in us : u.name = names[i]]

list_users ==
    /\ ret' = Returned("none", NoUser, list_users_rows(users))
    /\ UNCHANGED storeVars

get_or_create_user(name) ==
    LET cleaned == strip(name)
    IN  /\ IF cleaned = <<>>
           THEN /\ ret' = Raised("ValueError")
                /\ UNCHANGED storeVars
           ELSE IF \E u \in users : u.name = cleaned
           THEN /\ ret' = Returned("none",
                                   CHOOSE u \in users : u.name = cleaned, <<>>)
                /\ UNCHANGED storeVars
           ELSE IF UserNameTaken(users, cleaned)
           THEN /\ ret' = Raised("IntegrityError")
                /\ UNCHANGED storeVars
           ELSE /\ users' = users \cup {[id |-> userSeq + 1, name |-> cleaned]}
                /\ userSeq' = userSeq + 1
                /\ ret' = Returned("none",
                                   [id |-> userSeq + 1, name |-> cleaned], <<>>)
                /\ UNCHANGED <<movies, movieSeq>>

\* SELECT title, year, rating, poster_url FROM movies WHERE user_id = :user_id
\* ORDER BY title, collected into a dict keyed by title
list_movies_rows(ms, user_id) ==
    LET rows == {m \in ms : m.user_id = user_id}
        keys == OrderBy({m.title : m \in rows})
    IN  [i \in 1..Len(keys) |->
            LET m == CHOOSE m \in rows :
                        /\ m.title = keys[i]
                        /\ \A o \in rows : o.title = keys[i] => o.id <= m.id
            IN  [title |-> m.title, year |-> m.year, rating |-> m.rating,
                 poster_url |-> m.poster_url]]

list_movies(user_id) ==
    /\ ret' = Returned("none", NoUser, list_movies_rows(movies, user_id))
    /\ UNCHANGED storeVars

add_movie(title, year, rating, poster_url, user_id) ==
    /\ UniqueViolation(movies, title, user_id) \/ movieSeq < MaxMovieSeq
    /\ IF \/ UniqueViolation(movies, title, user_id)
          \/ ForeignKeyViolation(users, user_id)
       THEN /\ ret' = Raised("IntegrityError")
            /\ UNCHANGED storeVars
       ELSE /\ movies' = movies \cup
                    {MovieRow(movieSeq + 1, title, year, rating, poster_url, user_id)}
            /\ movieSeq' = movieSeq + 1
            /\ ret' = Returned("added", NoUser, <<>>)
            /\ UNCHANGED <<users, userSeq>>

delete_movie(title, user_id) ==
    LET hit == {m \in movies : MatchesMovie(m, title, user_id)}
    IN  /\ movies' = movies \ hit
        /\ ret' = Returned(IF Cardinality(hit) = 0 THEN "not found" ELSE "deleted",
                           NoUser, <<>>)
        /\ UNCHANGED <<users, userSeq, movieSeq>>

update_movie(title, rating, user_id) ==
    LET hit == {m \in movies : MatchesMovie(m, title, user_id)}
    IN  /\ movies' = (movies \ hit) \cup {[m EXCEPT !.rating = rating] : m \in hit}
        /\ ret' = Returned(IF Cardinality(hit) = 0 THEN "not found" ELSE "updated",
                           NoUser, <<>>)
        /\ UNCHANGED <<users, userSeq, movieSeq>>

----------------------------------------------------------------------------
(* The store driven directly, with any arguments *)

CtlIdle ==
    /\ current_user = NoUser
    /\ pc = "import"
    /\ choice = "none"
    /\ OMDB_API_KEY = FALSE
    /\ fetched = "not called"
    /\ requestsSent = 0
    /\ sites = {}
    /\ listedBefore = <<>>

Init ==
    /\ init_db
    /\ call = NoCall
    /\ ret = NoRet
    /\ CtlIdle

ListUsers ==
    /\ list_users
    /\ call' = [NoCall EXCEPT !.op = "list_users"]
    /\ UNCHANGED <<ctlVars, listedBefore>>

GetOrCreateUser ==
    \E name \in Names :
        /\ get_or_create_user(name)
        /\ call' = [NoCall EXCEPT !.op = "get_or_create_user", !.name = name]
        /\ UNCHANGED <<ctlVars, listedBefore>>

ListMovies ==
    \E u \in UserIds :
        /\ list_movies(u)
        /\ call' = [NoCall EXCEPT !.op = "list_movies", !.user_id = u]
        /\ UNCHANGED <<ctlVars, listedBefore>>

AddMovie ==
    \E t \in Titles, d \in MovieData, u \in UserIds :
        /\ add_movie(t, d.year, d.rating, d.poster_url, u)
        /\ call' = [NoCall EXCEPT !.op = "add_movie", !.title = t,
                                  !.year = d.year, !.rating = d.rating,
                                  !.poster_url = d.poster_url, !.user_id = u]
        /\ UNCHANGED <<ctlVars, listedBefore>>

DeleteMovie ==
    \E t \in Titles, u \in UserIds :
        /\ delete_movie(t, u)
        /\ call' = [NoCall EXCEPT !.op = "delete_movie", !.title = t,
                                  !.user_id = u]
        /\ UNCHANGED <<ctlVars, listedBefore>>

UpdateMovie ==
    \E t \in Titles, r \in Ratings, u \in UserIds :
        /\ update_movie(t, r, u)
        /\ call' = [NoCall EXCEPT !.op = "update_movie", !.title = t,
                                  !.rating = r, !.user_id = u]
        /\ UNCHANGED <<ctlVars, listedBefore>>

Next ==
    \/ ListUsers
    \/ GetOrCreateUser
    \/ ListMovies
    \/ AddMovie
    \/ DeleteMovie
    \/ UpdateMovie

Spec == Init /\ [][Next]_vars

----------------------------------------------------------------------------
(* The store driven as test_storage.py drives it: on a store in any state,   *)
(* list, add a title the user does not hold, update its rating any number of *)
(* times, delete it, list                                                     *)

ScriptAdd ==
    \E t \in Titles, d \in MovieData, u \in UserIds :
        /\ pc = "import"
        /\ ~ \E m \in movies : m.title = t /\ m.user_id = u
        /\ listedBefore' = list_movies_rows(movies, u)
        /\ add_movie(t, d.year, d.rating, d.poster_url, u)
        /\ call' = [NoCall EXCEPT !.op = "add_movie", !.title = t,
                                  !.year = d.year, !.rating = d.rating,
                                  !.poster_url = d.poster_url, !.user_id = u]
        /\ pc' = "added"
        /\ UNCHANGED <<current_user, choice, OMDB_API_KEY, fetched,
                       requestsSent, sites>>

ScriptUpdate ==
    \E r \in Ratings :
        /\ pc = "added"
        /\ update_movie(call.title, r, call.user_id)
        /\ call' = [NoCall EXCEPT !.op = "update_movie", !.title = call.title,
                                  !.rating = r, !.user_id = call.user_id]
        /\ UNCHANGED <<ctlVars, listedBefore>>

ScriptDelete ==
    /\ pc = "added"
    /\ delete_movie(call.title, call.user_id)
    /\ call' = [NoCall EXCEPT !.op = "delete_movie", !.title = call.title,
                              !.user_id = call.user_id]
    /\ pc' = "deleted"
    /\ UNCHANGED <<current_user, choice, OMDB_API_KEY, fetched,
                   requestsSent, sites, listedBefore>>

\* any store call before the script starts
ScriptSetup == pc = "import" /\ Next

ScriptNext ==
    \/ ScriptSetup
    \/ ScriptAdd
    \/ ScriptUpdate
    \/ ScriptDelete

ScriptSpec == Init /\ [][ScriptNext]_vars

----------------------------------------------------------------------------
(* Metadata fetcher *)

\* dict.get(key, default)
Get(d, key, default) == IF key \in DOMAIN d THEN d[key] ELSE default

\* the JSON object {}
EmptyDict == [k \in {} |-> <<>>]

\* what the provider can answer to the one GET: no answer, an error status,
\* a body that is not JSON, or a JSON object
Responses ==
    { [kind |-> "network_failure", body |-> EmptyDict],
      [kind |-> "http_error", body |-> EmptyDict],
      [kind |-> "not_json", body |-> EmptyDict],
      [kind |-> "json", body |-> EmptyDict],
      [kind |-> "json", body |-> [Response |-> "False", Error |-> <<"x">>]],
      [kind |-> "json", body |-> [Response |-> "True", Year |-> <<"2", "0", "1", "0">>]],
      [kind |-> "json",
       body |-> [Response |-> "True", Title |-> <<"A">>,
                 Year |-> <<"2", "0", "1", "0">>,
                 imdbRating |-> <<"8", ".", "8">>, Poster |-> <<"p">>]],
      [kind |-> "json",
       body |-> [Response |-> "True", Title |-> <<"B", " ">>,
                 Year |-> <<"N", "/", "A">>,
                 imdbRating |-> <<"N", "/", "A">>]] }

\* a fetch that tries the GET a second time after a network failure
fetch_with_retry(key, resp) ==
    IF ~key
    THEN [reason |-> "no key", none |-> TRUE, raised |-> FALSE,
          data |-> EmptyDict, sent |-> 0]
    ELSE IF resp.kind = "network_failure"
    THEN [reason |-> resp.kind, none |-> TRUE, raised |-> FALSE,
          data |-> EmptyDict, sent |-> 2]
    ELSE IF resp.kind = "http_error"
    THEN [reason |-> resp.kind, none |-> TRUE, raised |-> FALSE,
          data |-> EmptyDict, sent |-> 1]
    ELSE IF resp.kind = "not_json"
    THEN [reason |-> "not_json", none |-> FALSE, raised |-> TRUE,
          data |-> EmptyDict, sent |-> 1]
    ELSE IF Get(resp.body, "Response", "None") = "False"
    THEN [reason |-> "logical_error", none |-> TRUE, raised |-> FALSE,
          data |-> EmptyDict, sent |-> 1]
    ELSE [reason |-> "data", none |-> FALSE, raised |-> FALSE,
          data |-> resp.body, sent |-> 1]

\* fetch_movie_from_omdb: none is TRUE where it returns None, raised where
\* response.json() raises out of it, sent counts the GETs
fetch_movie_from_omdb(key, resp) ==
    IF ~key
    THEN [reason |-> "no key", none |-> TRUE, raised |-> FALSE,
          data |-> EmptyDict, sent |-> 0]
    ELSE IF resp.kind \in {"network_failure", "http_error"}
    THEN [reason |-> resp.kind, none |-> TRUE, raised |-> FALSE,
          data |-> EmptyDict, sent |-> 1]
    ELSE IF resp.kind = "not_json"
    THEN [reason |-> "not_json", none |-> FALSE, raised |-> TRUE,
          data |-> EmptyDict, sent |-> 1]
    ELSE IF Get(resp.body, "Response", "None") = "False"
    THEN [reason |-> "logical_error", none |-> TRUE, raised |-> FALSE,
          data |-> EmptyDict, sent |-> 1]
    ELSE [reason |-> "data", none |-> FALSE, raised |-> FALSE,
          data |-> resp.body, sent |-> 1]

parse_omdb_result(data) ==
    LET year_str == strip(Get(data, "Year", <<>>))
        year == ParseInt(SubSeq(year_str, 1, IF Len(year_str) < 4 THEN Len(year_str) ELSE 4))
        rating_str == strip(Get(data, "imdbRating", <<>>))
        rating == ParseFloat(rating_str)
    IN  [title |-> strip(Get(data, "Title", <<>>)),
         year |-> IF year.ok THEN year.val ELSE 0,
         rating |-> IF rating_str \in {<<"N", "/", "A">>, <<>>} THEN 0
                    ELSE IF rating.ok THEN rating.val ELSE 0,
         poster_url |-> Get(data, "Poster", <<>>)]

----------------------------------------------------------------------------
(* Controller *)

\* what is typed at the prompts
Selections == { <<"x">>, <<"0">>, <<"1">>, <<"2">>, <<"3">> }
TitleInputs == { <<>>, <<" ">>, <<"A">>, <<" ", "B">> }
RatingInputs == { <<"x">>, <<"9", ".", "0">> }

\* a loop that never asks for a user
NoUserNeeded(cu) == FALSE

\* if current_user is None
NeedsUser(cu) == cu = NoUser

sanitize_filename(name) ==
    LET kept == SelectSeq(name, LAMBDA c : IsAlnum(c) \/ c \in {" ", "_", "-"})
        cleaned == strip(kept)
        replaced == [i \in 1..Len(cleaned) |->
                        IF cleaned[i] = " " THEN "_" ELSE cleaned[i]]
    IN  IF replaced = <<>> THEN <<"u", "s", "e", "r">> ELSE replaced

\* one pass of the while loop of choose_user, entered from main
choose_user ==
    \E sel \in Selections, name \in Names :
        LET us == list_users_rows(users)
            number == ParseInt(strip(sel))
            typed == strip(name)
            again == list_users /\ UNCHANGED <<current_user, pc>>
            create ==
                IF typed = <<>> THEN again
                ELSE /\ get_or_create_user(typed)
                     /\ IF ret'.exc = "none"
                        THEN current_user' = ret'.user /\ pc' = "loop"
                        ELSE pc' = "crashed" /\ UNCHANGED current_user
        IN  /\ UNCHANGED <<call, listedBefore, choice, OMDB_API_KEY, fetched, requestsSent, sites>>
            /\ IF Len(us) = 0 THEN create
               ELSE IF ~number.ok THEN again
               ELSE IF 1 <= number.val /\ number.val <= Len(us)
               THEN list_users /\ current_user' = us[number.val] /\ pc' = "loop"
               ELSE IF number.val = Len(us) + 1 THEN create
               ELSE again

\* current_user["id"] where current_user is None raises TypeError
WithUser(A) ==
    IF current_user = NoUser
    THEN pc' = "crashed" /\ UNCHANGED <<storeVars, ret>>
    ELSE A

Return == pc' = "loop" /\ UNCHANGED <<storeVars, ret>>

\* the handlers that send no request
NoFetch == fetched' = "not called" /\ requestsSent' = 0

command_list_movies ==
    /\ WithUser(list_movies(current_user.id) /\ pc' = "loop")
    /\ NoFetch
    /\ UNCHANGED sites

command_add_movie ==
    \E typed \in TitleInputs, resp \in Responses :
        LET user_title == strip(typed)
            omdb == fetch_movie_from_omdb(OMDB_API_KEY, resp)
            parsed == parse_omdb_result(omdb.data)
        IN  /\ UNCHANGED sites
            /\ IF user_title = <<>>
               THEN NoFetch /\ Return
               ELSE /\ fetched' = omdb.reason
                    /\ requestsSent' = omdb.sent
                    /\ IF omdb.raised
                       THEN pc' = "crashed" /\ UNCHANGED <<storeVars, ret>>
                       ELSE IF omdb.none \/ omdb.data = EmptyDict
                       THEN Return
                       ELSE IF parsed.title = <<>>
                       THEN Return
                       ELSE IF current_user = NoUser
                       THEN Return
                       ELSE /\ add_movie(parsed.title, parsed.year, parsed.rating,
                                         parsed.poster_url, current_user.id)
                            /\ pc' = "loop"

command_delete_movie ==
    \E typed \in TitleInputs :
        LET title == strip(typed)
        IN  /\ NoFetch
            /\ UNCHANGED sites
            /\ IF title = <<>>
               THEN Return
               ELSE WithUser(delete_movie(title, current_user.id) /\ pc' = "loop")

command_update_movie ==
    \E typed \in TitleInputs, typedRating \in RatingInputs :
        LET title == strip(typed)
            rating == ParseFloat(strip(typedRating))
        IN  /\ NoFetch
            /\ UNCHANGED sites
            /\ IF title = <<>>
               THEN Return
               ELSE IF ~rating.ok
               THEN Return
               ELSE WithUser(update_movie(title, rating.val, current_user.id)
                             /\ pc' = "loop")

command_stats ==
    /\ WithUser(list_movies(current_user.id) /\ pc' = "loop")
    /\ NoFetch
    /\ UNCHANGED sites

command_random_movie ==
    /\ WithUser(list_movies(current_user.id) /\ pc' = "loop")
    /\ NoFetch
    /\ UNCHANGED sites

command_search_movie ==
    \E typed \in TitleInputs :
        LET query == strip(typed)
        IN  /\ NoFetch
            /\ UNCHANGED sites
            /\ IF query = <<>>
               THEN Return
               ELSE WithUser(list_movies(current_user.id) /\ pc' = "loop")

command_movies_sorted ==
    /\ WithUser(list_movies(current_user.id) /\ pc' = "loop")
    /\ NoFetch
    /\ UNCHANGED sites

command_generate_website ==
    \E template \in BOOLEAN :
        /\ NoFetch
        /\ IF current_user = NoUser
           THEN pc' = "crashed" /\ UNCHANGED <<storeVars, ret, sites>>
           ELSE /\ list_movies(current_user.id)
                /\ pc' = "loop"
                /\ sites' = IF template
                            THEN sites \cup {sanitize_filename(current_user.name)}
                            ELSE sites

----------------------------------------------------------------------------
(* main: the menu loop *)

CtlInit ==
    /\ init_db
    /\ call = NoCall
    /\ ret = NoRet
    /\ current_user = NoUser
    /\ pc = "main"
    /\ choice = "none"
    /\ OMDB_API_KEY \in BOOLEAN
    /\ fetched = "not called"
    /\ requestsSent = 0
    /\ sites = {}
    /\ listedBefore = <<>>

\* current_user = choose_user(), before the loop and at its top
SelectUser ==
    /\ pc = "main" \/ (pc = "loop" /\ NeedsUser(current_user))
    /\ choose_user

\* print_menu and the prompt of a new pass of the loop: nothing is read yet,
\* no store call made, no request sent in this pass
ShowMenu ==
    /\ pc = "loop"
    /\ ~NeedsUser(current_user)
    /\ pc' = "menu"
    /\ choice' = "none"
    /\ ret' = NoRet
    /\ NoFetch
    /\ UNCHANGED <<storeVars, call, listedBefore, current_user, OMDB_API_KEY, sites>>

Chosen(c) ==
    /\ pc = "menu"
    /\ choice' = c
    /\ UNCHANGED <<call, listedBefore, OMDB_API_KEY>>

Exit ==
    /\ Chosen("0")
    /\ pc' = "exit"
    /\ NoFetch
    /\ UNCHANGED <<storeVars, ret, current_user, sites>>

SwitchUser ==
    /\ Chosen("10")
    /\ current_user' = NoUser
    /\ pc' = "loop"
    /\ NoFetch
    /\ UNCHANGED <<storeVars, ret, sites>>

InvalidChoice ==
    /\ Chosen("x")
    /\ Return
    /\ NoFetch
    /\ UNCHANGED <<current_user, sites>>

CmdListMovies == Chosen("1") /\ command_list_movies /\ UNCHANGED current_user
CmdAddMovie == Chosen("2") /\ command_add_movie /\ UNCHANGED current_user
CmdDeleteMovie == Chosen("3") /\ command_delete_movie /\ UNCHANGED current_user
CmdUpdateMovie == Chosen("4") /\ command_update_movie /\ UNCHANGED current_user
CmdStats == Chosen("5") /\ command_stats /\ UNCHANGED current_user
CmdRandomMovie == Chosen("6") /\ command_random_movie /\ UNCHANGED current_user
CmdSearchMovie == Chosen("7") /\ command_search_movie /\ UNCHANGED current_user
CmdMoviesSorted == Chosen("8") /\ command_movies_sorted /\ UNCHANGED current_user
CmdGenerateWebsite == Chosen("9") /\ command_generate_website /\ UNCHANGED current_user

CtlNext ==
    \/ SelectUser
    \/ ShowMenu
    \/ Exit
    \/ SwitchUser
    \/ InvalidChoice
    \/ CmdListMovies
    \/ CmdAddMovie
    \/ CmdDeleteMovie
    \/ CmdUpdateMovie
    \/ CmdStats
    \/ CmdRandomMovie
    \/ CmdSearchMovie
    \/ CmdMoviesSorted
    \/ CmdGenerateWebsite

CtlSpec == CtlInit /\ [][CtlNext]_vars

----------------------------------------------------------------------------
(* Properties of the store *)

\* the set of entries of a listing
Entries(rows) == {rows[i] : i \in 1..Len(rows)}

\* C1: the movies table holds at most one row for each (title, user id) pair
C1_UniqueTitlePerUser ==
    \A m1 \in movies, m2 \in movies :
        (m1.title = m2.title /\ m1.user_id = m2.user_id) => m1 = m2

\* two users hold the same title at once
C1_Witness ==
    \E m1 \in movies, m2 \in movies :
        m1.title = m2.title /\ m1.user_id # m2.user_id

\* the step is an add_movie call for a (title, user id) pair that has a row
DuplicateAddStep ==
    /\ call'.op = "add_movie"
    /\ \E m \in movies : m.title = call'.title /\ m.user_id = call'.user_id

\* C2 as stated: add_movie for a pair that already has a row returns to its
\* caller without raising, and the movies table is as it was
C2_DuplicateAddReturns ==
    [][DuplicateAddStep => (ret'.exc = "none" /\ movies' = movies)]_vars

\* C2 amended: add_movie for a pair that already has a row raises
\* IntegrityError to its caller, and both tables are as they were
C2_DuplicateAddRaises ==
    [][DuplicateAddStep =>
        (ret'.exc = "IntegrityError" /\ ret'.msg = "none" /\
         movies' = movies /\ users' = users)]_vars

\* a second add of a pair was refused, the row still has the first add's fields
C2_Witness ==
    /\ call.op = "add_movie"
    /\ ret.exc = "IntegrityError"
    /\ \E m \in movies :
          /\ m.title = call.title /\ m.user_id = call.user_id
          /\ m.year # call.year /\ m.poster_url # call.poster_url
          /\ \A o \in movies :
                (o.title = m.title /\ o.user_id = m.user_id) => o = m

\* C3: add_movie for a pair that has no row, followed by list_movies of that
\* user, lists the title with exactly the given fields and every entry listed
\* before the add
C3_AddThenList ==
    [][(/\ call'.op = "add_movie"
        /\ ~ \E m \in movies : m.title = call'.title /\ m.user_id = call'.user_id)
       =>
       LET before == Entries(list_movies_rows(movies, call'.user_id))
           after == Entries(list_movies_rows(movies', call'.user_id))
           given == [title |-> call'.title, year |-> call'.year,
                     rating |-> call'.rating, poster_url |-> call'.poster_url]
       IN  /\ ret'.exc = "none"
           /\ given \in after
           /\ \A e \in after : e.title = call'.title => e = given
           /\ before \subseteq after]_vars

\* an add succeeded for a user who already had an entry, with the year 0 and a
\* poster, and the listing shows both
C3_Witness ==
    /\ call.op = "add_movie"
    /\ ret.msg = "added"
    /\ call.year = 0
    /\ Len(list_movies_rows(movies, call.user_id)) = 2

\* C4: update_movie sets the rating of the row matching (title, user id) and
\* changes nothing else; with no matching row the table is unchanged and the
\* call prints not found
C4_UpdateOnlyRating ==
    [][call'.op = "update_movie" =>
        LET hit == \E m \in movies :
                      m.title = call'.title /\ m.user_id = call'.user_id
        IN  /\ ret'.exc = "none"
            /\ \A m \in movies :
                  IF m.title = call'.title /\ m.user_id = call'.user_id
                  THEN [m EXCEPT !.rating = call'.rating] \in movies'
                  ELSE m \in movies'
            /\ Cardinality(movies') = Cardinality(movies)
            /\ users' = users
            /\ hit => ret'.msg = "updated"
            /\ ~hit => (ret'.msg = "not found" /\ movies' = movies)]_vars

\* a rating was updated while another user holds the same title with another
\* rating
C4_Witness ==
    /\ call.op = "update_movie"
    /\ ret.msg = "updated"
    /\ \E m \in movies :
          /\ m.title = call.title /\ m.user_id = call.user_id
          /\ m.rating = call.rating
    /\ \E o \in movies :
          /\ o.title = call.title /\ o.user_id # call.user_id
          /\ o.rating # call.rating

\* C5: delete_movie removes the row matching (title, user id) and no other;
\* with no matching row the table is unchanged and the call prints not found
C5_DeleteOnlyMatch ==
    [][call'.op = "delete_movie" =>
        LET hit == \E m \in movies :
                      m.title = call'.title /\ m.user_id = call'.user_id
        IN  /\ ret'.exc = "none"
            /\ movies' \subseteq movies
            /\ \A m \in movies :
                  m \in movies' <=>
                      ~(m.title = call'.title /\ m.user_id = call'.user_id)
            /\ users' = users
            /\ hit => (ret'.msg = "deleted" /\
                       Cardinality(movies') = Cardinality(movies) - 1)
            /\ ~hit => (ret'.msg = "not found" /\ movies' = movies)]_vars

\* a row was deleted while another user's row with the same title stays
C5_Witness ==
    /\ call.op = "delete_movie"
    /\ ret.msg = "deleted"
    /\ ~ \E m \in movies : m.title = call.title /\ m.user_id = call.user_id
    /\ \E o \in movies : o.title = call.title /\ o.user_id # call.user_id

\* C6: get_or_create_user is a lookup-or-insert: users rows are never removed
\* or changed; a call whose stripped name is not empty returns the one row of
\* that name, adding it only when no row had the name; so any two calls with
\* the same name return the same id and the second adds no row
C6_GetOrCreateIdempotent ==
    [][/\ users \subseteq users'
       /\ call'.op = "get_or_create_user" =>
            LET cleaned == rstrip(lstrip(call'.name))
            IN  /\ Cardinality(users') <= Cardinality(users) + 1
                /\ (\E u \in users : u.name = cleaned) => users' = users
                /\ cleaned # <<>> => ret'.exc = "none"
                /\ ret'.exc = "none" =>
                      /\ ret'.user \in users'
                      /\ ret'.user.name = cleaned
                      /\ \A u \in users' : u.name = cleaned => u = ret'.user
                /\ ret'.exc # "none" => users' = users]_vars

\* a padded name got the row that the plain name created earlier, after a
\* second user was created
C6_Witness ==
    /\ call.op = "get_or_create_user"
    /\ call.name = <<"a", " ">>
    /\ ret.user = [id |-> 1, name |-> <<"a">>]
    /\ Cardinality(users) = 2

\* C7: every row of the movies table has the user id of a users row
C7_ForeignKeyIntegrity ==
    \A m \in movies : \E u \in users : u.id = m.user_id

----------------------------------------------------------------------------
(* Properties of the controller *)

HandlerChoices == {"1", "2", "3", "4", "5", "6", "7", "8", "9"}

\* C8: choosing 10 leaves no user selected; while no user is selected no menu
\* choice is read and the prompt is not reached, only user selection runs; a
\* handler is only ever invoked with a user selected, and leaves it selected
C8_SwitchForcesSelection ==
    [][/\ (pc = "menu" /\ choice' = "10") =>
            (current_user' = NoUser /\ pc' = "loop")
       /\ current_user = NoUser =>
            (choice' = choice /\ pc' \in {"main", "loop"})
       /\ pc' = "menu" => current_user' # NoUser
       /\ (pc = "menu" /\ choice' \in HandlerChoices) =>
            (current_user # NoUser /\ current_user' = current_user)]_vars

\* the user was switched away from after movies were stored
C8_Witness ==
    /\ choice = "10"
    /\ current_user = NoUser
    /\ pc = "loop"
    /\ movies # {}

\* C9: the loop ends only when the exit choice is entered
C9_OnlyExitEndsLoop ==
    /\ pc # "crashed"
    /\ pc = "exit" => choice = "0"

\* C10: an add whose fetch returns None (no key, network failure, error
\* status, logical error) leaves the store as it was and returns to the loop;
\* without a key no request is sent, otherwise exactly one
C10_FetchNoneAbortsAdd ==
    [][(pc = "menu" /\ choice' = "2") =>
        /\ fetched' \in {"no key", "network_failure", "http_error", "logical_error"} =>
              /\ UNCHANGED storeVars
              /\ pc' = "loop"
              /\ requestsSent' = (IF fetched' = "no key" THEN 0 ELSE 1)
        /\ fetched' = "no key" <=> (~OMDB_API_KEY /\ fetched' # "not called")
        /\ (~OMDB_API_KEY) => (UNCHANGED storeVars /\ requestsSent' = 0)
        /\ requestsSent' = (IF fetched' \in {"not called", "no key"} THEN 0 ELSE 1)]_vars

\* an add was given up after one request that met a network failure, with
\* movies in the store
C10_Witness ==
    /\ choice = "2"
    /\ fetched = "network_failure"
    /\ requestsSent = 1
    /\ pc = "loop"
    /\ movies # {}

----------------------------------------------------------------------------
(* Properties of the store driven by the script *)

\* the listing of the user the script works on
ScriptListing(ms) == list_movies_rows(ms, call.user_id)

\* C11: the first user created in an empty store gets id 1; adding an absent
\* title makes the listing the one before the add plus exactly the given
\* entry (so on an empty listing, exactly that entry); an update sets the
\* listed rating and leaves year, poster URL and every other entry alone;
\* the delete after any number of updates returns the listing to its value
\* before the add (empty, when it was empty)
C11_AddUpdateDeleteRoundTrip ==
    [][/\ (userSeq = 0 /\ userSeq' = 1) =>
            (ret'.user.id = 1 /\ users' = {ret'.user})
       /\ (pc = "import" /\ pc' = "added") =>
            LET given == [title |-> call'.title, year |-> call'.year,
                          rating |-> call'.rating,
                          poster_url |-> call'.poster_url]
                after == list_movies_rows(movies', call'.user_id)
            IN  /\ listedBefore' = list_movies_rows(movies, call'.user_id)
                /\ Entries(after) = Entries(listedBefore') \cup {given}
                /\ Len(after) = Len(listedBefore') + 1
                /\ listedBefore' = <<>> => after = <<given>>
       /\ (pc = "added" /\ pc' = "added") =>
            LET old == ScriptListing(movies)
                new == list_movies_rows(movies', call'.user_id)
            IN  /\ Len(new) = Len(old)
                /\ \A i \in 1..Len(old) :
                      IF old[i].title = call'.title
                      THEN new[i] = [old[i] EXCEPT !.rating = call'.rating]
                      ELSE new[i] = old[i]
                /\ \E i \in 1..Len(old) : old[i].title = call'.title
       /\ pc' = "deleted" =>
            /\ list_movies_rows(movies', call'.user_id) = listedBefore'
            /\ listedBefore' = <<>> => list_movies_rows(movies', call'.user_id) = <<>>]_vars

\* the script ran to its end for a user who held another title before
C11_Witness ==
    /\ pc = "deleted"
    /\ call.op = "delete_movie"
    /\ Len(listedBefore) = 1
    /\ ScriptListing(movies) = listedBefore

----------------------------------------------------------------------------
(* Frame of the handlers *)

ReadOnlyChoices == {"1", "5", "6", "7", "8", "9"}

\* the movies rows of the users other than the selected one
RowsOfOthers(ms, cu) == {m \in ms : m.user_id # cu.id}

\* C12: one invocation of a handler creates, changes or deletes at most one
\* row, and only a movies row of the selected user: list, stats, random,
\* search, sorted and generate website leave both tables as they were, add
\* inserts at most one movies row, delete removes at most one, update changes
\* at most one; selecting a user creates at most one users row
C12_HandlerTouchesOneRowOfCurrentUser ==
    [][/\ (pc = "menu" /\ choice' \in HandlerChoices) =>
            /\ users' = users
            /\ RowsOfOthers(movies', current_user) = RowsOfOthers(movies, current_user)
            /\ \A m \in (movies' \ movies) \cup (movies \ movies') :
                  m.user_id = current_user.id
            /\ Cardinality(movies' \ movies) <= 1
            /\ Cardinality(movies \ movies') <= 1
            /\ choice' \in ReadOnlyChoices => movies' = movies
            /\ choice' = "2" => movies \subseteq movies'
            /\ choice' = "3" => movies' \subseteq movies
            /\ choice' = "4" => Cardinality(movies') = Cardinality(movies)
       /\ ~(pc = "menu" /\ choice' \in HandlerChoices) =>
            /\ movies' = movies
            /\ users \subseteq users'
            /\ Cardinality(users' \ users) <= 1]_vars

\* the selected user's row of a title was deleted while another user still
\* holds the title
C12_Witness ==
    /\ choice = "3"
    /\ pc = "loop"
    /\ ret.msg = "deleted"
    /\ \E m \in movies :
          /\ m.user_id # current_user.id
          /\ ~ \E o \in movies : o.title = m.title /\ o.user_id = current_user.id
    /\ Cardinality(movies) = 1

====
